---- MODULE Spec2Model ----
(***************************************************************************)
(* Model of KafkaDataConsumerGroup                                         *)
(* (be/src/runtime/routine_load/data_consumer_group.cpp):                  *)
(*   assign_topic_partitions  - division of the partitions over consumers  *)
(*   start_all                - dispatch, drain loop, finalize, outcome    *)
(*   actual_consume           - worker task and its finish callback        *)
(*   ~KafkaDataConsumerGroup  - queue clean-up                             *)
(* The blocking queue, the thread pool, the consumers' group_consume and   *)
(* the pipe are collaborators whose code is outside the modelled file.     *)
(***************************************************************************)
EXTENDS Integers, Sequences, FiniteSets, TLC

\* ------------------------------------------------------------------ bounds
MaxConsumers == 3       \* assign_topic_partitions is explored for 1..MaxConsumers consumers
MaxRecords == 3         \* records the consumers fetch during one start_all
QueueCap == 2           \* capacity the queue was constructed with
MaxTicks == 2           \* the stop watch is read at 0..MaxTicks ticks of TickMs

\* ------------------------------------------------------------ input values
PartitionIds == {0, 1, 2, 3, 5}
StartOffsets == {0, 7}
NumConsumers == 2
TickMs == 500
RecordLens == {400, 700}
IntervalChoices == {0, 1}
BatchSizeChoices == {0, 1000}

EmptyMap == [x \in {} |-> 0]
NoMsg == [partition |-> -1, offset |-> -1, len |-> 0]

\* std::map<int32_t,int64_t> is a function with a finite domain; iteration
\* is in ascending key order.
MapKeysBelow(m, k) == {j \in DOMAIN m : j < k}

NthKey(m, n) == CHOOSE k \in DOMAIN m : Cardinality(MapKeysBelow(m, k)) = n

\* std::map::emplace: inserts unless the key is present
MapEmplace(m, k, v) ==
    IF k \in DOMAIN m THEN m
    ELSE [q \in DOMAIN m \cup {k} |-> IF q = k THEN v ELSE m[q]]

\* std::map::operator[] followed by an assignment: insert or overwrite
MapAssign(m, k, v) == [q \in DOMAIN m \cup {k} |-> IF q = k THEN v ELSE m[q]]

VARIABLES
    \* ---- assign_topic_partitions
    begin_offset,     \* ctx->kafka_info->begin_offset
    consumer_size,    \* _consumers.size()
    divide_parts,     \* vector of maps, indexed 0..consumer_size-1
    div_i,            \* the counter i of the dividing loop
    asg_i,            \* the counter i of the assigning loop
    assigned,         \* what each consumer accepted (consumer state)
    assign_pc,        \* "divide", "assign", "returned"
    assign_ret,       \* status returned by assign_topic_partitions
    asked,            \* consumers whose assign_topic_partitions was called
    \* ---- start_all: control thread
    pc, sub_i, result_st, left_time, left_bytes, received_rows, cmt_offset,
    st, eos, msg, watch_elapsed, ret,
    \* ---- group members
    counter, queue, qshutdown, pool_shutdown,
    \* ---- workers and consumers
    wstate, wst, wmsg, cancelled, next_offset, produced,
    \* ---- RdKafka::Message objects on the heap
    enqueued, freed, freed_twice,
    \* ---- pipe (ctx->body_sink)
    sink_appended, sink_broken, sink_finish_calls, sink_cancel_calls,
    \* ---- task context
    max_interval_s, max_batch_size, ctx_cmt_offset, ctx_receive_bytes,
    \* ---- destructor
    dtor_pc,
    \* ---- history (not program state)
    prior_cmt, fail_order, taken, uaf, after_fail

assign_vars == <<begin_offset, consumer_size, divide_parts, div_i, asg_i,
                 assigned, assign_pc, assign_ret, asked>>

ctl_vars == <<pc, sub_i, result_st, left_time, left_bytes, received_rows,
              cmt_offset, st, eos, msg, watch_elapsed, ret>>

grp_vars == <<counter, queue, qshutdown, pool_shutdown>>

wrk_vars == <<wstate, wst, wmsg, cancelled, next_offset, produced>>

heap_vars == <<enqueued, freed, freed_twice>>

sink_vars == <<sink_appended, sink_broken, sink_finish_calls, sink_cancel_calls>>

ctx_vars == <<max_interval_s, max_batch_size, ctx_cmt_offset, ctx_receive_bytes>>

hist_vars == <<prior_cmt, fail_order, taken, uaf, after_fail>>

run_vars == <<ctl_vars, grp_vars, wrk_vars, heap_vars, sink_vars, ctx_vars, dtor_pc,
              hist_vars>>

vars == <<assign_vars, run_vars>>

Consumers == 0 .. (consumer_size - 1)

\* ================================================ assign_topic_partitions
\* int idx = i % consumer_size;
DivideIdxByKey(i, key, size) == key % size

DivideIdx(i, key, size) == i % size

\* divide_parts[idx].emplace(kv.first, kv.second);
DivideEmplaceOverwrite(dp, idx, k, v) ==
    [dp EXCEPT ![idx] = [q \in {k} |-> v]]

DivideEmplace(dp, idx, k, v) ==
    [dp EXCEPT ![idx] = MapEmplace(dp[idx], k, v)]

\* one iteration of the dividing loop, for the i-th entry of the map
DivideIter(dp, bo, size, i) ==
    LET k == NthKey(bo, i)
    IN  DivideEmplace(dp, DivideIdx(i, k, size), k, bo[k])

RECURSIVE DivideUpTo(_, _, _)
DivideUpTo(bo, size, n) ==
    IF n = 0 THEN [c \in 0 .. (size - 1) |-> EmptyMap]
    ELSE DivideIter(DivideUpTo(bo, size, n - 1), bo, size, n - 1)

DivideStep ==
    /\ assign_pc = "divide"
    /\ IF div_i < Cardinality(DOMAIN begin_offset)
       THEN /\ divide_parts' = DivideIter(divide_parts, begin_offset, consumer_size, div_i)
            /\ div_i' = div_i + 1
            /\ UNCHANGED assign_pc
       ELSE /\ assign_pc' = "assign"
            /\ UNCHANGED <<divide_parts, div_i>>
    /\ UNCHANGED <<begin_offset, consumer_size, asg_i, assigned, assign_ret, asked, run_vars>>

\* the loop of lines 48-50 remembering a failure and going on to the next consumer
AssignStepContinue ==
    /\ assign_pc = "assign"
    /\ IF asg_i < consumer_size
       THEN \E ok \in BOOLEAN :
              /\ assigned' = IF ok THEN [assigned EXCEPT ![asg_i] = divide_parts[asg_i]]
                                   ELSE assigned
              /\ assign_ret' = IF ok THEN assign_ret ELSE "AssignError"
              /\ asg_i' = asg_i + 1
              /\ UNCHANGED assign_pc
       ELSE /\ assign_pc' = "returned"
            /\ assign_ret' = IF assign_ret = "AssignError" THEN assign_ret ELSE "OK"
            /\ UNCHANGED <<assigned, asg_i>>
    /\ asked' = IF asg_i < consumer_size THEN asked \cup {asg_i} ELSE asked
    /\ UNCHANGED <<begin_offset, consumer_size, divide_parts, div_i, run_vars>>

\* RETURN_IF_ERROR(_consumers[i]->assign_topic_partitions(divide_parts[i], ...))
AssignStep ==
    /\ assign_pc = "assign"
    /\ IF asg_i < consumer_size
       THEN \E ok \in BOOLEAN :
              IF ok
              THEN /\ assigned' = [assigned EXCEPT ![asg_i] = divide_parts[asg_i]]
                   /\ asg_i' = asg_i + 1
                   /\ UNCHANGED <<assign_pc, assign_ret>>
              ELSE /\ assign_pc' = "returned"
                   /\ assign_ret' = "AssignError"
                   /\ UNCHANGED <<assigned, asg_i>>
       ELSE /\ assign_pc' = "returned"
            /\ assign_ret' = "OK"
            /\ UNCHANGED <<assigned, asg_i>>
    /\ asked' = IF asg_i < consumer_size THEN asked \cup {asg_i} ELSE asked
    /\ UNCHANGED <<begin_offset, consumer_size, divide_parts, div_i, run_vars>>


\* ================================================================ start_all
BeginOffset == [p \in {0, 1} |-> 10 * (p + 1)]
PriorCmtChoices == {[p \in {0} |-> 10 * (p + 1) - 1]}

\* value of _counter when start_all is entered: one per consumer of the group
InitCounter == NumConsumers

ErrOf(i) == IF i = 0 THEN "Err0" ELSE IF i = 1 THEN "Err1" ELSE "Err2"

\* ---- TimedBlockingQueue<RdKafka::Message*>
\* blocking_put: waits while full and open, fails once the queue is shut down
BlockingPutOk(q, sd) == ~sd /\ Len(q) < QueueCap

\* blocking_put waits while the queue is at capacity and open
BlockingPutWaits(q, sd) == ~sd /\ Len(q) >= QueueCap

\* blocking_put returns false once the queue is shut down
BlockingPutFails(q, sd) == sd

\* blocking_get: waits while empty and open, true with the head item when
\* there is one, false once the queue is shut down and empty
BlockingGetItem(q, sd) == q # <<>>

BlockingGetClosed(q, sd) == q = <<>> /\ sd

\* ---- ThreadPool::offer: the pool may refuse the task
OfferResults == BOOLEAN

\* ---- pipe append: fails from the moment the pipe is broken
AppendResults(broken) == IF broken THEN {"AppendError"} ELSE {"OK", "AppendError"}

\* the stop watch is monotonic; it is read in milliseconds
ClockReads(e) == {k * TickMs : k \in 0 .. MaxTicks} \cap {x \in 0 .. (MaxTicks * TickMs) : x >= e}

\* line 193 keeping the value computed at line 95
LeftTimeCached(interval_s, elapsed_ms) == interval_s * 1000

\* line 193: left_time = ctx->max_interval_s * 1000 - watch.elapsed_time() / 1000 / 1000
LeftTime(interval_s, elapsed_ms) == interval_s * 1000 - elapsed_ms

\* line 174: the Status returned by append_data is dropped, st keeps its value
StAfterAppend(old_st, append_result) == old_st

\* line 130 also leaving the loop once a worker has reported a failure
TerminalCondOrFailed(e, lt, lb) == e \/ lt <= 0 \/ lb <= 0 \/ result_st # "OK"

\* line 130 with < in place of <=
TerminalCondStrict(e, lt, lb) == e \/ lt < 0 \/ lb < 0

\* line 130
TerminalCond(e, lt, lb) == e \/ lt <= 0 \/ lb <= 0

\* lines 83-85: if (result_st.ok() && !st.ok()) result_st = st;
LatchLastError(cur, s) == IF s # "OK" THEN s ELSE cur

LatchFirstError(cur, s) == IF cur = "OK" /\ s # "OK" THEN s ELSE cur

\* line 154: left_bytes == ctx->max_batch_size
NothingConsumedZero(lb, mbs) == lb = 0

NothingConsumed(lb, mbs) == lb = mbs

\* lines 72-92, one iteration of the dispatch loop
Submit ==
    /\ pc = "submit"
    /\ UNCHANGED heap_vars
    /\ sub_i < consumer_size
    /\ \E offered \in OfferResults :
         IF offered
         THEN /\ wstate' = [wstate EXCEPT ![sub_i] = "running"]
              /\ sub_i' = sub_i + 1
              /\ UNCHANGED <<pc, ret>>
         ELSE /\ ret' = "InternalError"
              /\ pc' = "returned"
              /\ UNCHANGED <<wstate, sub_i>>
    /\ UNCHANGED <<result_st, left_time, left_bytes, received_rows, cmt_offset,
                   st, eos, msg, watch_elapsed>>
    /\ UNCHANGED <<grp_vars, wst, wmsg, cancelled, next_offset, produced, sink_vars,
                   ctx_vars, dtor_pc, hist_vars, assign_vars>>

\* lines 94-128: locals of the drain loop
StartDrain ==
    /\ pc = "submit"
    /\ UNCHANGED heap_vars
    /\ sub_i = consumer_size
    /\ left_time' = max_interval_s * 1000
    /\ received_rows' = 0
    /\ left_bytes' = max_batch_size
    /\ cmt_offset' = ctx_cmt_offset
    /\ watch_elapsed' = 0
    /\ st' = "OK"
    /\ eos' = FALSE
    /\ pc' = "loop_top"
    /\ UNCHANGED <<sub_i, result_st, msg, ret>>
    /\ UNCHANGED <<grp_vars, wrk_vars, sink_vars, ctx_vars, dtor_pc, hist_vars, assign_vars>>

\* line 130: the loop-top check
LoopTop ==
    /\ pc = "loop_top"
    /\ UNCHANGED heap_vars
    /\ pc' = IF TerminalCond(eos, left_time, left_bytes) THEN "finalize" ELSE "get"
    /\ UNCHANGED <<sub_i, result_st, left_time, left_bytes, received_rows,
                   cmt_offset, st, eos, msg, watch_elapsed, ret>>
    /\ UNCHANGED <<grp_vars, wrk_vars, sink_vars, ctx_vars, dtor_pc, hist_vars, assign_vars>>

\* the loop giving up as soon as the queue is shut down, items left or not
BlockingGetStopWhenShut ==
    /\ pc = "get"
    /\ UNCHANGED heap_vars
    /\ \/ /\ BlockingGetItem(queue, qshutdown)
          /\ ~qshutdown
          /\ msg' = Head(queue)
          /\ queue' = Tail(queue)
          /\ pc' = "append"
          /\ after_fail' = IF result_st # "OK" THEN after_fail \cup {"get"} ELSE after_fail
          /\ UNCHANGED <<eos, left_time, watch_elapsed>>
       \/ /\ qshutdown
          /\ eos' = TRUE
          /\ \E e \in ClockReads(watch_elapsed) :
               /\ watch_elapsed' = e
               /\ left_time' = LeftTime(max_interval_s, e)
          /\ pc' = "loop_top"
          /\ UNCHANGED <<msg, queue, after_fail>>
    /\ UNCHANGED <<sub_i, result_st, left_bytes, received_rows, cmt_offset, st, ret>>
    /\ UNCHANGED <<counter, qshutdown, pool_shutdown, wrk_vars, sink_vars, ctx_vars,
                   dtor_pc, prior_cmt, fail_order, taken, uaf, assign_vars>>

\* the loop taking the newest queued message instead of the oldest
BlockingGetNewest ==
    /\ pc = "get"
    /\ UNCHANGED heap_vars
    /\ \/ /\ BlockingGetItem(queue, qshutdown)
          /\ msg' = queue[Len(queue)]
          /\ queue' = SubSeq(queue, 1, Len(queue) - 1)
          /\ pc' = "append"
          /\ after_fail' = IF result_st # "OK" THEN after_fail \cup {"get"} ELSE after_fail
          /\ UNCHANGED <<eos, left_time, watch_elapsed>>
       \/ /\ BlockingGetClosed(queue, qshutdown)
          /\ eos' = TRUE
          /\ \E e \in ClockReads(watch_elapsed) :
               /\ watch_elapsed' = e
               /\ left_time' = LeftTime(max_interval_s, e)
          /\ pc' = "loop_top"
          /\ UNCHANGED <<msg, queue, after_fail>>
    /\ UNCHANGED <<sub_i, result_st, left_bytes, received_rows, cmt_offset, st, ret>>
    /\ UNCHANGED <<counter, qshutdown, pool_shutdown, wrk_vars, sink_vars, ctx_vars,
                   dtor_pc, prior_cmt, fail_order, taken, uaf, assign_vars>>

\* lines 168-169 and 188-193: _queue.blocking_get(&msg)
BlockingGet ==
    /\ pc = "get"
    /\ UNCHANGED heap_vars
    /\ \/ /\ BlockingGetItem(queue, qshutdown)
          /\ msg' = Head(queue)
          /\ queue' = Tail(queue)
          /\ pc' = "append"
          /\ after_fail' = IF result_st # "OK" THEN after_fail \cup {"get"} ELSE after_fail
          /\ UNCHANGED <<eos, left_time, watch_elapsed>>
       \/ /\ BlockingGetClosed(queue, qshutdown)
          /\ eos' = TRUE
          /\ \E e \in ClockReads(watch_elapsed) :
               /\ watch_elapsed' = e
               /\ left_time' = LeftTime(max_interval_s, e)
          /\ pc' = "loop_top"
          /\ UNCHANGED <<msg, queue, after_fail>>
    /\ UNCHANGED <<sub_i, result_st, left_bytes, received_rows, cmt_offset, st, ret>>
    /\ UNCHANGED <<counter, qshutdown, pool_shutdown, wrk_vars, sink_vars, ctx_vars,
                   dtor_pc, prior_cmt, fail_order, taken, uaf, assign_vars>>

\* lines 174-187 and 193: append, account, delete msg, recompute left_time
ProcessMsg ==
    /\ pc = "append"
    /\ \E ar \in AppendResults(sink_broken) :
         /\ sink_broken' = (ar # "OK")
         /\ sink_appended' = IF ar = "OK" THEN Append(sink_appended, msg) ELSE sink_appended
         /\ st' = StAfterAppend(st, ar)
    /\ IF st' = "OK"
       THEN /\ received_rows' = received_rows + 1
            /\ left_bytes' = left_bytes - msg.len
            /\ cmt_offset' = MapAssign(cmt_offset, msg.partition, msg.offset)
            /\ UNCHANGED eos
       ELSE /\ eos' = TRUE
            /\ UNCHANGED <<received_rows, left_bytes, cmt_offset>>
    /\ msg' = NoMsg
    /\ freed' = freed \cup {msg}
    /\ freed_twice' = (freed_twice \/ msg \in freed)
    /\ UNCHANGED enqueued
    /\ taken' = Append(taken, msg)
    /\ \E e \in ClockReads(watch_elapsed) :
         /\ watch_elapsed' = e
         /\ left_time' = LeftTime(max_interval_s, e)
    /\ pc' = "loop_top"
    /\ UNCHANGED <<sub_i, result_st, ret>>
    /\ UNCHANGED <<grp_vars, wrk_vars, sink_finish_calls, sink_cancel_calls, ctx_vars,
                   dtor_pc, prior_cmt, fail_order, uaf, after_fail, assign_vars>>

\* Finalize without line 139
FinalizeSkipShutdownQueue ==
    /\ pc = "finalize"
    /\ pc' = "cancel"
    /\ UNCHANGED <<sub_i, result_st, left_time, left_bytes, received_rows,
                   cmt_offset, st, eos, msg, watch_elapsed, ret>>
    /\ UNCHANGED <<grp_vars, wrk_vars, heap_vars, sink_vars, ctx_vars,
                   dtor_pc, hist_vars, assign_vars>>

\* line 139
FinalizeShutdownQueue ==
    /\ pc = "finalize"
    /\ UNCHANGED heap_vars
    /\ qshutdown' = TRUE
    /\ pc' = "cancel"
    /\ UNCHANGED <<sub_i, result_st, left_time, left_bytes, received_rows,
                   cmt_offset, st, eos, msg, watch_elapsed, ret>>
    /\ UNCHANGED <<counter, queue, pool_shutdown, wrk_vars, sink_vars, ctx_vars,
                   dtor_pc, hist_vars, assign_vars>>

\* lines 141-143
FinalizeCancel ==
    /\ pc = "cancel"
    /\ UNCHANGED heap_vars
    /\ cancelled' = [i \in Consumers |-> TRUE]
    /\ pc' = "pool_shutdown"
    /\ UNCHANGED <<sub_i, result_st, left_time, left_bytes, received_rows,
                   cmt_offset, st, eos, msg, watch_elapsed, ret>>
    /\ UNCHANGED <<grp_vars, wstate, wst, wmsg, next_offset, produced, sink_vars, ctx_vars,
                   dtor_pc, hist_vars, assign_vars>>

\* line 146
FinalizePoolShutdown ==
    /\ pc = "pool_shutdown"
    /\ UNCHANGED heap_vars
    /\ pool_shutdown' = TRUE
    /\ pc' = "join"
    /\ UNCHANGED <<sub_i, result_st, left_time, left_bytes, received_rows,
                   cmt_offset, st, eos, msg, watch_elapsed, ret>>
    /\ UNCHANGED <<counter, queue, qshutdown, wrk_vars, sink_vars, ctx_vars,
                   dtor_pc, hist_vars, assign_vars>>

\* line 147 returning without waiting for the tasks
FinalizeJoinNoWait ==
    /\ pc = "join"
    /\ pc' = "decide"
    /\ UNCHANGED <<sub_i, result_st, left_time, left_bytes, received_rows,
                   cmt_offset, st, eos, msg, watch_elapsed, ret>>
    /\ UNCHANGED <<grp_vars, wrk_vars, heap_vars, sink_vars, ctx_vars, dtor_pc,
                   hist_vars, assign_vars>>

\* line 147: join returns when every dispatched task has run to its end
FinalizeJoin ==
    /\ pc = "join"
    /\ UNCHANGED heap_vars
    /\ \A i \in Consumers : wstate[i] \in {"idle", "done"}
    /\ pc' = "decide"
    /\ UNCHANGED <<sub_i, result_st, left_time, left_bytes, received_rows,
                   cmt_offset, st, eos, msg, watch_elapsed, ret>>
    /\ UNCHANGED <<grp_vars, wrk_vars, sink_vars, ctx_vars, dtor_pc, hist_vars, assign_vars>>

\* lines 149-165 with the write-back moved before the outcome is decided
DecideCommitFirst ==
    /\ pc = "decide"
    /\ UNCHANGED heap_vars
    /\ ctx_cmt_offset' = cmt_offset
    /\ ctx_receive_bytes' = max_batch_size - left_bytes
    /\ IF result_st # "OK"
       THEN /\ ret' = result_st
            /\ UNCHANGED <<sink_finish_calls, sink_cancel_calls>>
       ELSE IF NothingConsumed(left_bytes, max_batch_size)
       THEN /\ sink_cancel_calls' = sink_cancel_calls + 1
            /\ ret' = "Cancelled"
            /\ UNCHANGED sink_finish_calls
       ELSE /\ sink_finish_calls' = sink_finish_calls + 1
            /\ ret' = "OK"
            /\ UNCHANGED sink_cancel_calls
    /\ pc' = "returned"
    /\ UNCHANGED <<sub_i, result_st, left_time, left_bytes, received_rows,
                   cmt_offset, st, eos, msg, watch_elapsed>>
    /\ UNCHANGED <<grp_vars, wrk_vars, sink_appended, sink_broken, max_interval_s,
                   max_batch_size, dtor_pc, hist_vars, assign_vars>>

\* lines 149-165 with the return after cancel missing
DecideFallThrough ==
    /\ pc = "decide"
    /\ UNCHANGED heap_vars
    /\ IF result_st # "OK"
       THEN /\ ret' = result_st
            /\ UNCHANGED <<sink_finish_calls, sink_cancel_calls, ctx_cmt_offset, ctx_receive_bytes>>
       ELSE /\ sink_cancel_calls' =
                 IF NothingConsumed(left_bytes, max_batch_size)
                 THEN sink_cancel_calls + 1 ELSE sink_cancel_calls
            /\ sink_finish_calls' = sink_finish_calls + 1
            /\ ctx_cmt_offset' = cmt_offset
            /\ ctx_receive_bytes' = max_batch_size - left_bytes
            /\ ret' = "OK"
    /\ pc' = "returned"
    /\ UNCHANGED <<sub_i, result_st, left_time, left_bytes, received_rows,
                   cmt_offset, st, eos, msg, watch_elapsed>>
    /\ UNCHANGED <<grp_vars, wrk_vars, sink_appended, sink_broken, max_interval_s,
                   max_batch_size, dtor_pc, hist_vars, assign_vars>>

\* lines 149-165: the outcome
Decide ==
    /\ pc = "decide"
    /\ UNCHANGED heap_vars
    /\ IF result_st # "OK"
       THEN /\ ret' = result_st
            /\ UNCHANGED <<sink_finish_calls, sink_cancel_calls, ctx_cmt_offset, ctx_receive_bytes>>
       ELSE IF NothingConsumed(left_bytes, max_batch_size)
       THEN /\ sink_cancel_calls' = sink_cancel_calls + 1
            /\ ret' = "Cancelled"
            /\ UNCHANGED <<sink_finish_calls, ctx_cmt_offset, ctx_receive_bytes>>
       ELSE /\ sink_finish_calls' = sink_finish_calls + 1
            /\ ctx_cmt_offset' = cmt_offset
            /\ ctx_receive_bytes' = max_batch_size - left_bytes
            /\ ret' = "OK"
            /\ UNCHANGED sink_cancel_calls
    /\ pc' = "returned"
    /\ UNCHANGED <<sub_i, result_st, left_time, left_bytes, received_rows,
                   cmt_offset, st, eos, msg, watch_elapsed>>
    /\ UNCHANGED <<grp_vars, wrk_vars, sink_appended, sink_broken, max_interval_s,
                   max_batch_size, dtor_pc, hist_vars, assign_vars>>


\* ====================================================== actual_consume
\* group_consume puts a fetched message on the queue (blocking_put succeeded)
WorkerPut(i) ==
    /\ wstate[i] = "running"
    /\ produced < MaxRecords
    /\ BlockingPutOk(queue, qshutdown)
    /\ \E p \in DOMAIN assigned[i], len \in RecordLens :
         /\ queue' = Append(queue, [partition |-> p, offset |-> next_offset[p], len |-> len])
         /\ enqueued' = enqueued \cup {[partition |-> p, offset |-> next_offset[p], len |-> len]}
         /\ next_offset' = [next_offset EXCEPT ![p] = @ + 1]
    /\ produced' = produced + 1
    /\ after_fail' = IF result_st # "OK" THEN after_fail \cup {"put"} ELSE after_fail
    /\ UNCHANGED <<ctl_vars, counter, qshutdown, pool_shutdown, wstate, wst, wmsg, cancelled,
                   freed, freed_twice, sink_vars, ctx_vars, dtor_pc, prior_cmt, fail_order,
                   taken, uaf, assign_vars>>

\* group_consume fetched a message and its blocking_put finds the queue at
\* capacity and open: the worker waits inside put, holding the message
WorkerPutBlock(i) ==
    /\ wstate[i] = "running"
    /\ produced < MaxRecords
    /\ BlockingPutWaits(queue, qshutdown)
    /\ \E p \in DOMAIN assigned[i], len \in RecordLens :
         /\ wmsg' = [wmsg EXCEPT ![i] = [partition |-> p, offset |-> next_offset[p],
                                         len |-> len]]
         /\ next_offset' = [next_offset EXCEPT ![p] = @ + 1]
    /\ produced' = produced + 1
    /\ wstate' = [wstate EXCEPT ![i] = "blocked"]
    /\ UNCHANGED <<ctl_vars, grp_vars, wst, cancelled, heap_vars, sink_vars, ctx_vars,
                   dtor_pc, hist_vars, assign_vars>>

\* a waiting put is woken by a get that made room: the message is queued
WorkerPutWake(i) ==
    /\ wstate[i] = "blocked"
    /\ BlockingPutOk(queue, qshutdown)
    /\ queue' = Append(queue, wmsg[i])
    /\ enqueued' = enqueued \cup {wmsg[i]}
    /\ wmsg' = [wmsg EXCEPT ![i] = NoMsg]
    /\ wstate' = [wstate EXCEPT ![i] = "running"]
    /\ UNCHANGED <<ctl_vars, counter, qshutdown, pool_shutdown, wst, cancelled,
                   next_offset, produced, freed, freed_twice, sink_vars, ctx_vars,
                   dtor_pc, hist_vars, assign_vars>>

\* a waiting put is woken by shutdown and fails; group_consume keeps the
\* message, stops and returns OK
WorkerPutShutdown(i) ==
    /\ wstate[i] = "blocked"
    /\ BlockingPutFails(queue, qshutdown)
    /\ wmsg' = [wmsg EXCEPT ![i] = NoMsg]
    /\ wst' = [wst EXCEPT ![i] = "OK"]
    /\ wstate' = [wstate EXCEPT ![i] = "returned"]
    /\ UNCHANGED <<ctl_vars, grp_vars, cancelled, next_offset, produced, heap_vars,
                   sink_vars, ctx_vars, dtor_pc, hist_vars, assign_vars>>

\* line 202: group_consume returns its terminal status (time budget over,
\* cancelled, put refused by a shut-down queue: OK; source error: failure)
WorkerReturn(i) ==
    /\ wstate[i] = "running"
    /\ UNCHANGED <<wmsg, heap_vars>>
    /\ \E s \in {"OK", ErrOf(i)} : wst' = [wst EXCEPT ![i] = s]
    /\ wstate' = [wstate EXCEPT ![i] = "returned"]
    /\ UNCHANGED <<ctl_vars, grp_vars, cancelled, next_offset, produced, sink_vars,
                   ctx_vars, dtor_pc, hist_vars, assign_vars>>

\* lines 78-80 shutting the queue down one worker early
ShutdownOnLastOrSecondLast(c, sd) == IF c <= 1 THEN TRUE ELSE sd

\* lines 78-80: the worker that brings _counter to zero shuts the queue down
ShutdownOnLast(c, sd) == IF c = 0 THEN TRUE ELSE sd

\* line 82 after start_all returned at line 88: result_st is a dead stack
\* slot, the store through the dangling reference may or may not land in it
LatchWrite(returned, cur, worker_st) ==
    IF returned THEN {cur, LatchFirstError(cur, worker_st)}
    ELSE {LatchFirstError(cur, worker_st)}

\* lines 74-85 and 203: the finish callback, run under _mutex
FinishCallback(i) ==
    /\ wstate[i] = "returned"
    /\ UNCHANGED <<wmsg, heap_vars>>
    /\ uaf' = (uaf \/ pc = "returned")
    /\ counter' = counter - 1
    /\ qshutdown' = ShutdownOnLast(counter', qshutdown)
    /\ result_st' \in LatchWrite(pc = "returned", result_st, wst[i])
    /\ wstate' = [wstate EXCEPT ![i] = "done"]
    /\ fail_order' = IF wst[i] # "OK" THEN Append(fail_order, wst[i]) ELSE fail_order
    /\ UNCHANGED <<pc, sub_i, left_time, left_bytes, received_rows, cmt_offset, st,
                   eos, msg, watch_elapsed, ret>>
    /\ UNCHANGED <<queue, pool_shutdown, wst, cancelled, next_offset, produced,
                   sink_vars, ctx_vars, dtor_pc, prior_cmt, taken, after_fail, assign_vars>>

\* ============================================== ~KafkaDataConsumerGroup
\* the destructor without line 56
DtorNoShutdown ==
    /\ pc = "returned"
    /\ UNCHANGED heap_vars
    /\ dtor_pc = "idle"
    /\ dtor_pc' = "loop"
    /\ UNCHANGED <<ctl_vars, grp_vars, wrk_vars, sink_vars, ctx_vars, hist_vars, assign_vars>>

\* line 56
DtorShutdown ==
    /\ pc = "returned"
    /\ UNCHANGED heap_vars
    /\ dtor_pc = "idle"
    /\ qshutdown' = TRUE
    /\ dtor_pc' = "loop"
    /\ UNCHANGED <<ctl_vars, counter, queue, pool_shutdown, wrk_vars, sink_vars,
                   ctx_vars, hist_vars, assign_vars>>

\* the clean-up loop without the delete of line 60
DtorLoopLeak ==
    /\ dtor_pc = "loop"
    /\ \/ /\ BlockingGetItem(queue, qshutdown)
          /\ queue' = Tail(queue)
          /\ UNCHANGED dtor_pc
       \/ /\ BlockingGetClosed(queue, qshutdown)
          /\ dtor_pc' = "done"
          /\ UNCHANGED queue
    /\ UNCHANGED <<ctl_vars, counter, qshutdown, pool_shutdown, wrk_vars, heap_vars,
                   sink_vars, ctx_vars, hist_vars, assign_vars>>

\* lines 57-65: one iteration of the clean-up loop
DtorLoop ==
    /\ dtor_pc = "loop"
    /\ \/ /\ BlockingGetItem(queue, qshutdown)
          /\ queue' = Tail(queue)
          /\ freed' = freed \cup {Head(queue)}
          /\ freed_twice' = (freed_twice \/ Head(queue) \in freed)
          /\ UNCHANGED dtor_pc
       \/ /\ BlockingGetClosed(queue, qshutdown)
          /\ dtor_pc' = "done"
          /\ UNCHANGED <<queue, freed, freed_twice>>
    /\ UNCHANGED enqueued
    /\ UNCHANGED <<ctl_vars, counter, qshutdown, pool_shutdown, wrk_vars, sink_vars,
                   ctx_vars, hist_vars, assign_vars>>

\* ================================================================ Init/Next
BeginOffsetChoices == UNION {[D -> StartOffsets] : D \in SUBSET PartitionIds}

RunInit(first_pc) ==
    /\ pc = first_pc
    /\ sub_i = 0
    /\ result_st = "OK"
    /\ left_time = 0
    /\ left_bytes = 0
    /\ received_rows = 0
    /\ cmt_offset = EmptyMap
    /\ st = "OK"
    /\ eos = FALSE
    /\ msg = NoMsg
    /\ watch_elapsed = 0
    /\ ret = "none"
    /\ counter = InitCounter
    /\ queue = <<>>
    /\ qshutdown = FALSE
    /\ pool_shutdown = FALSE
    /\ wstate = [i \in 0 .. (NumConsumers - 1) |-> "idle"]
    /\ wst = [i \in 0 .. (NumConsumers - 1) |-> "none"]
    /\ wmsg = [i \in 0 .. (NumConsumers - 1) |-> NoMsg]
    /\ enqueued = {}
    /\ freed = {}
    /\ freed_twice = FALSE
    /\ cancelled = [i \in 0 .. (NumConsumers - 1) |-> FALSE]
    /\ next_offset = BeginOffset
    /\ produced = 0
    /\ sink_appended = <<>>
    /\ sink_broken = FALSE
    /\ sink_finish_calls = 0
    /\ sink_cancel_calls = 0
    /\ max_interval_s \in IntervalChoices
    /\ max_batch_size \in BatchSizeChoices
    /\ ctx_cmt_offset \in PriorCmtChoices
    /\ ctx_receive_bytes = 0
    /\ dtor_pc = "idle"
    /\ prior_cmt = ctx_cmt_offset
    /\ fail_order = <<>>
    /\ taken = <<>>
    /\ uaf = FALSE
    /\ after_fail = {}

\* the group after a successful assign_topic_partitions, start_all being called
Init ==
    /\ begin_offset = BeginOffset
    /\ consumer_size = NumConsumers
    /\ divide_parts = DivideUpTo(BeginOffset, NumConsumers, Cardinality(DOMAIN BeginOffset))
    /\ div_i = Cardinality(DOMAIN BeginOffset)
    /\ asg_i = NumConsumers
    /\ assigned = divide_parts
    /\ assign_pc = "returned"
    /\ assign_ret = "OK"
    /\ asked = 0 .. (NumConsumers - 1)
    /\ RunInit("submit")

Next ==
    \/ Submit
    \/ StartDrain
    \/ LoopTop
    \/ BlockingGet
    \/ ProcessMsg
    \/ FinalizeShutdownQueue
    \/ FinalizeCancel
    \/ FinalizePoolShutdown
    \/ FinalizeJoin
    \/ Decide
    \/ \E i \in Consumers : WorkerPut(i)
    \/ \E i \in Consumers : WorkerPutBlock(i)
    \/ \E i \in Consumers : WorkerPutWake(i)
    \/ \E i \in Consumers : WorkerPutShutdown(i)
    \/ \E i \in Consumers : WorkerReturn(i)
    \/ \E i \in Consumers : FinishCallback(i)
    \/ DtorShutdown
    \/ DtorLoop

Spec == Init /\ [][Next]_vars

\* the steps of the thread that called start_all
ControlThread ==
    \/ Submit
    \/ StartDrain
    \/ LoopTop
    \/ BlockingGet
    \/ ProcessMsg
    \/ FinalizeShutdownQueue
    \/ FinalizeCancel
    \/ FinalizePoolShutdown
    \/ FinalizeJoin
    \/ Decide

\* Scheduling: the control thread and every pool worker are OS threads that
\* keep running; a thread waiting in blocking_put/blocking_get/join proceeds
\* once its wait condition holds; group_consume returns (time budget,
\* cancellation or failed put) and line 203 then runs the callback.
Fairness ==
    /\ WF_vars(ControlThread)
    /\ \A i \in 0 .. (NumConsumers - 1) :
         /\ WF_vars(WorkerPutWake(i))
         /\ WF_vars(WorkerPutShutdown(i))
         /\ WF_vars(WorkerReturn(i))
         /\ WF_vars(FinishCallback(i))

SpecFair == Spec /\ Fairness

\* assign_topic_partitions being called on a group of 1..MaxConsumers consumers
InitAssign ==
    /\ begin_offset \in BeginOffsetChoices
    /\ consumer_size \in 1 .. MaxConsumers
    /\ divide_parts = [c \in 0 .. (consumer_size - 1) |-> EmptyMap]
    /\ div_i = 0
    /\ asg_i = 0
    /\ assigned = [c \in 0 .. (consumer_size - 1) |-> EmptyMap]
    /\ assign_pc = "divide"
    /\ assign_ret = "none"
    /\ asked = {}
    /\ RunInit("not_called")
    /\ max_interval_s = 0

NextAssign ==
    \/ DivideStep
    \/ AssignStep

SpecAssign == InitAssign /\ [][NextAssign]_vars


\* ================================================================= claims
\* ---- helpers of the claims
ReadersOf(p) == {c \in Consumers : p \in DOMAIN divide_parts[c]}

DivideDone == assign_pc \in {"assign", "returned"}

\* C1: once the partitions are divided, every partition id of begin_offset is
\* in exactly one consumer's subset with its original start offset, the
\* union of the subsets is the input partition set, and when
\* assign_topic_partitions returns OK every consumer holds exactly its subset.
C1_EveryPartitionInExactlyOneReader ==
    DivideDone =>
        /\ \A p \in DOMAIN begin_offset :
             /\ Cardinality(ReadersOf(p)) = 1
             /\ \A c \in ReadersOf(p) : divide_parts[c][p] = begin_offset[p]
        /\ UNION {DOMAIN divide_parts[c] : c \in Consumers} = DOMAIN begin_offset
        /\ (assign_ret = "OK" => assigned = divide_parts)

C1_Witness ==
    /\ assign_pc = "returned"
    /\ assign_ret = "OK"
    /\ consumer_size = 2
    /\ Cardinality(DOMAIN begin_offset) = 5
    /\ Cardinality(DOMAIN assigned[0]) = 3
    /\ \E p \in DOMAIN assigned[1] : assigned[1][p] = 7

\* C2: the i-th partition in ascending key order goes to consumer i mod R at
\* every point of the dividing loop, so the subsets' sizes differ by at most
\* one; partitions {0,1,2,3} over 2 consumers give {0,2} and {1,3}.
C2_RoundRobinByIndex ==
    /\ \A p \in DOMAIN begin_offset :
         LET rank == Cardinality(MapKeysBelow(begin_offset, p))
         IN  ReadersOf(p) = IF rank < div_i THEN {rank % consumer_size} ELSE {}
    /\ DivideDone =>
         /\ \A c, d \in Consumers :
              Cardinality(DOMAIN divide_parts[c]) - Cardinality(DOMAIN divide_parts[d]) <= 1
         /\ (DOMAIN begin_offset = {0, 1, 2, 3} /\ consumer_size = 2) =>
              (DOMAIN divide_parts[0] = {0, 2} /\ DOMAIN divide_parts[1] = {1, 3})

C2_Witness ==
    /\ assign_pc = "returned"
    /\ assign_ret = "OK"
    /\ consumer_size = 2
    /\ DOMAIN begin_offset = {0, 1, 2, 3}
    /\ DOMAIN assigned[0] = {0, 2}
    /\ DOMAIN assigned[1] = {1, 3}


\* ---- helpers of the claims about start_all
RECURSIVE SumLen(_)
SumLen(recs) == IF recs = <<>> THEN 0 ELSE recs[1].len + SumLen(Tail(recs))

PartsIn(recs) == {recs[k].partition : k \in 1 .. Len(recs)}

LastOffsetOf(recs, p) ==
    LET ks == {k \in 1 .. Len(recs) : recs[k].partition = p}
    IN  recs[CHOOSE k \in ks : \A j \in ks : j <= k].offset

ReaderErrors == {ErrOf(i) : i \in Consumers}

AllDispatched == sub_i = consumer_size

Returned == pc = "returned"

\* C3: if every reader finishes successfully and at least one record was
\* appended to the pipe, start_all returns OK and the offset map written to
\* the task context holds, for every partition with an appended record, the
\* offset of the last record of that partition that was appended.
C3_SuccessCommitsLastAppended ==
    (/\ Returned
     /\ \A i \in Consumers : wstate[i] = "done" /\ wst[i] = "OK"
     /\ sink_appended # <<>>)
    => /\ ret = "OK"
       /\ \A p \in PartsIn(sink_appended) :
            /\ p \in DOMAIN ctx_cmt_offset
            /\ ctx_cmt_offset[p] = LastOffsetOf(sink_appended, p)

\* C4: whenever start_all returns after a reader failure was recorded, it
\* returns the first recorded failure.
C4_AnyReturnIsFirstFailure ==
    [][(pc # "returned" /\ pc' = "returned" /\ fail_order # <<>>)
         => ret' = Head(fail_order)]_vars

\* C4 on the finalize path (lines 145-152): when every consumer was dispatched
\* and a reader's run returned a failure, start_all returns the first failure
\* recorded by the finish callbacks, whatever was appended to the pipe.
C4_FinalizeReturnsFirstFailure ==
    (Returned /\ AllDispatched /\ \E i \in Consumers : wst[i] \in ReaderErrors)
    => (fail_order # <<>> /\ ret = Head(fail_order))

C4_Witness ==
    /\ Returned
    /\ AllDispatched
    /\ Len(fail_order) = 2
    /\ ret = Head(fail_order)
    /\ ret = "Err1"
    /\ Len(sink_appended) >= 2

C6_ContextWrittenOnlyOnSuccess ==
    /\ ret # "OK" => (ctx_cmt_offset = prior_cmt /\ ctx_receive_bytes = 0)
    /\ ret = "OK" => /\ sink_finish_calls = 1
                     /\ ctx_cmt_offset = cmt_offset
                     /\ ctx_receive_bytes = max_batch_size - left_bytes

C6_Witness ==
    /\ Returned
    /\ ret \in ReaderErrors
    /\ cmt_offset # prior_cmt
    /\ ctx_cmt_offset = prior_cmt

\* C7: when the pipe's append of a record fails, that step sets eos and does
\* not advance the offset entry, the row counter or the byte budget.
C7_AppendFailureStops ==
    [][(pc = "append" /\ pc' = "loop_top" /\ sink_appended' = sink_appended)
         => /\ eos' = TRUE
            /\ cmt_offset' = cmt_offset
            /\ received_rows' = received_rows
            /\ left_bytes' = left_bytes]_vars

\* C8: the pipe sees at most one terminal call; finish only with the OK
\* outcome and the written-back offsets; a propagated reader failure leaves
\* the pipe unfinished; nothing is appended or called once start_all returned.
C8_SinkState ==
    /\ sink_finish_calls + sink_cancel_calls <= 1
    /\ sink_finish_calls = 1 => (Returned /\ ret = "OK" /\ ctx_cmt_offset = cmt_offset)
    /\ (Returned /\ ret = "OK") => sink_finish_calls = 1
    /\ (Returned /\ ret # "OK") => (sink_finish_calls = 0 /\ ctx_cmt_offset = prior_cmt)

C8_SinkQuietStep ==
    pc \in {"finalize", "cancel", "pool_shutdown", "join", "returned"}
      => (/\ sink_appended' = sink_appended
          /\ sink_finish_calls' = sink_finish_calls
          /\ sink_cancel_calls' = sink_cancel_calls)

C8_AtMostOneTerminalCall == []C8_SinkState /\ [][C8_SinkQuietStep]_vars

C8_Witness ==
    /\ Returned
    /\ ret \in ReaderErrors
    /\ sink_appended # <<>>
    /\ sink_finish_calls = 0
    /\ sink_cancel_calls = 0

\* C9: a record is taken only while the cumulative length of the appended
\* records is below the byte budget, the budget is overshot by less than the
\* last record's length, and on success the byte total written to the task
\* context is the sum of the lengths of the appended records (three records
\* of 400 against a budget of 1000: 1200).
C9_ByteBudget ==
    /\ pc \in {"get", "append"} => SumLen(sink_appended) < max_batch_size
    /\ sink_appended # <<>> =>
         SumLen(sink_appended) - max_batch_size < sink_appended[Len(sink_appended)].len
    /\ (Returned /\ ret = "OK") => ctx_receive_bytes = SumLen(sink_appended)
    /\ (Returned /\ ret = "OK" /\ max_batch_size = 1000 /\ Len(sink_appended) = 3
          /\ \A k \in 1 .. 3 : sink_appended[k].len = 400) => ctx_receive_bytes = 1200

\* C10: the queue never holds more than its capacity; a get on a shut-down
\* empty queue returns instead of blocking, so the destructor's loop always
\* has a step to take and ends with an empty queue.
C10_QueueBoundedAndCleanUpEnds ==
    /\ Len(queue) <= QueueCap
    /\ dtor_pc = "loop" => ENABLED DtorLoop
    /\ (pc = "get" /\ qshutdown) => ENABLED BlockingGet
    /\ dtor_pc = "done" => (queue = <<>> /\ qshutdown)

C10_Witness ==
    /\ dtor_pc = "done"
    /\ queue = <<>>
    /\ produced - Len(taken) = QueueCap

\* C11: under fair scheduling, with every reader's run returning once its
\* time budget is over, it is cancelled or its put fails, start_all
\* eventually returns: the control thread does not stay in blocking_get and
\* the pool join completes because no worker stays blocked in put.
C11_StartAllReturns == <>Returned

\* start_all returned after a worker's waiting put was failed by shutdown
C11_Witness ==
    /\ Returned
    /\ AllDispatched
    /\ \A i \in Consumers : wstate[i] = "done"
    /\ produced > Cardinality(enqueued)

\* C12: when the pool refuses to schedule a reader and start_all returns its
\* internal error, no worker task of the invocation is running or has its
\* finish callback still to run, and no callback runs after the return.
C12_RefusedSubmitLeavesNoWorker ==
    /\ (Returned /\ ret = "InternalError") =>
           \A i \in Consumers : wstate[i] \in {"idle", "done"}
    /\ ~uaf

\* C13: when a reader fails to accept its subset, assign_topic_partitions
\* has returned that failure, the failing reader is the last one asked, the
\* readers from the failing one on hold no assignment, and no worker task
\* has been dispatched; OK is returned only after every reader accepted.
C13_AssignFailureStopsEverything ==
    /\ assign_ret = "AssignError" =>
          /\ assign_pc = "returned"
          /\ asg_i < consumer_size
          /\ asked = 0 .. asg_i
          /\ \A c \in Consumers : c >= asg_i => assigned[c] = EmptyMap
          /\ \A c \in Consumers : c < asg_i => assigned[c] = divide_parts[c]
          /\ pc = "not_called"
          /\ sub_i = 0
          /\ \A i \in DOMAIN wstate : wstate[i] = "idle"
    /\ assign_ret = "OK" => asked = Consumers

\* the second of three readers rejected its subset
C13_Witness ==
    /\ assign_ret = "AssignError"
    /\ consumer_size = 3
    /\ asg_i = 1
    /\ assigned[0] # EmptyMap

WorkersDone == {i \in Consumers : wstate[i] = "done"}

\* C14 (state part): the counter is its initial value minus the number of
\* workers whose callback has run, never below zero, and the failures the
\* callbacks received are exactly the terminal statuses of those workers.
C14_CounterState ==
    /\ counter = InitCounter - Cardinality(WorkersDone)
    /\ counter >= 0
    /\ Len(fail_order) = Cardinality({i \in WorkersDone : wst[i] # "OK"})
    /\ \A i \in WorkersDone : wst[i] # "OK" =>
          \E k \in 1 .. Len(fail_order) : fail_order[k] = wst[i]

\* C14 (step part): the counter changes only by one callback of one
\* returned worker, which takes it down by one, and when that step shuts
\* the queue down every worker has run its callback (none can still put).
C14_CounterStep ==
    counter' # counter =>
        /\ counter' = counter - 1
        /\ \E i \in Consumers :
              /\ wstate[i] = "returned"
              /\ wstate'[i] = "done"
              /\ \A j \in Consumers \ {i} : wstate'[j] = wstate[j]
        /\ (qshutdown' /\ ~qshutdown) =>
              /\ counter' = 0
              /\ \A j \in Consumers : wstate'[j] = "done"

\* C14: each dispatched worker runs the finish callback once with its own
\* status; the counter is decremented once per worker, never goes below
\* zero, and worker completion shuts the queue down only when the last
\* worker has finished.
C14_CallbackOncePerWorker == []C14_CounterState /\ [][C14_CounterStep]_vars

\* the last callback shut the queue down while the drain loop was running
C14_Witness ==
    /\ counter = 0
    /\ qshutdown
    /\ pc \in {"loop_top", "get", "append"}
    /\ WorkersDone = Consumers
    /\ fail_order # <<>>

FirstFailure == IF fail_order = <<>> THEN "OK" ELSE fail_order[1]

\* C15: the latch holds the first non-success status any worker reported,
\* in callback order (OK while none did), whatever was reported later, and
\* when the control thread reads it every worker has run its callback.
C15_LatchHoldsFirstFailure ==
    /\ result_st = FirstFailure
    /\ pc = "decide" => WorkersDone = Consumers

\* the same while the frame of start_all that owns the latch is live
C15_LatchWhileFrameLive ==
    /\ ~Returned => result_st = FirstFailure
    /\ pc = "decide" => WorkersDone = Consumers
    /\ (Returned /\ ret # "InternalError") =>
          (result_st = FirstFailure /\ WorkersDone = Consumers)

\* C16: when the sink rejected a record of the batch, start_all returns
\* without having called the sink's finish and with the task context's
\* committed-offset map as it was before the invocation.
C16_RejectedRecordDiscardsBatch ==
    (Returned /\ Len(taken) > Len(sink_appended)) =>
        /\ sink_finish_calls = 0
        /\ ctx_cmt_offset = prior_cmt

\* C17 (state part): a reader failure is a return value only after Finalize
\* (queue shut down, pool joined, every callback run); while a failure is
\* latched and the queue is open, a running worker below its record supply
\* can still put; the loop past its top has no terminal condition pending.
C17_FailureState ==
    /\ ret \in ReaderErrors =>
          (Returned /\ qshutdown /\ pool_shutdown /\ WorkersDone = Consumers)
    /\ \A j \in Consumers :
          (result_st # "OK" /\ wstate[j] = "running" /\ ~qshutdown
             /\ produced < MaxRecords)
          => ENABLED (WorkerPut(j) \/ WorkerPutBlock(j))
    /\ (pc = "get" /\ result_st # "OK") => (queue # <<>> \/ qshutdown \/ counter > 0)

\* C17 (step part): the drain loop leaves its top for Finalize exactly when
\* end of stream, the time budget or the byte budget says so, whatever the
\* latch holds; end of stream is set only by a closed and empty queue;
\* latching a failure cancels no reader and shuts the queue down only as
\* the last callback; the failure is returned only by the decision step.
C17_FailureStep ==
    /\ (pc = "loop_top" /\ pc' # pc) =>
          IF eos \/ left_time <= 0 \/ left_bytes <= 0
          THEN pc' = "finalize" ELSE pc' = "get"
    /\ (eos' /\ ~eos) => (queue = <<>> /\ qshutdown)
    /\ result_st' # result_st =>
          /\ cancelled' = cancelled
          /\ pool_shutdown' = pool_shutdown
          /\ qshutdown' # qshutdown => counter' = 0
    /\ (ret' # ret /\ ret' \in ReaderErrors) => (pc = "decide" /\ ret' = result_st)

\* C17: a reader failure does not end the run early; the other workers keep
\* producing and the drain loop keeps taking and appending until a terminal
\* condition holds, and the failure surfaces as the return value after
\* Finalize.
C17_ReaderFailureNotEarlyStop == []C17_FailureState /\ [][C17_FailureStep]_vars

\* reader 0 failed, then reader 1 put a record, the loop took it and the
\* failure was returned after Finalize
C17_Witness ==
    /\ Returned
    /\ ret = "Err0"
    /\ after_fail = {"put", "get"}
    /\ wst[1] = "OK"

AllCancelled == \A i \in Consumers : cancelled[i]

\* C18 (state part): each Finalize step finds the earlier ones done, nothing
\* of Finalize is done while the loop runs, and the sink's finish or cancel
\* has been called only with every worker's callback run.
C18_FinalizeState ==
    /\ pc \in {"submit", "loop_top", "get", "append", "finalize"} =>
          (~pool_shutdown /\ \A i \in Consumers : ~cancelled[i])
    /\ pc = "cancel" => (qshutdown /\ ~pool_shutdown /\ \A i \in Consumers : ~cancelled[i])
    /\ pc = "pool_shutdown" => (qshutdown /\ AllCancelled /\ ~pool_shutdown)
    /\ pc = "join" => (qshutdown /\ AllCancelled /\ pool_shutdown)
    /\ pc = "decide" =>
          (qshutdown /\ AllCancelled /\ pool_shutdown /\ WorkersDone = Consumers)
    /\ pc \in {"finalize", "cancel", "pool_shutdown", "join", "decide"} =>
          (sink_finish_calls = 0 /\ sink_cancel_calls = 0 /\ ret = "none")
    /\ sink_finish_calls + sink_cancel_calls > 0 =>
          (Returned /\ qshutdown /\ AllCancelled /\ pool_shutdown
             /\ WorkersDone = Consumers)

\* C18 (step part): the control thread goes through Finalize in the order
\* queue shutdown, cancel, pool shutdown, join, decision, and once Finalize
\* has begun no record is taken from the queue or appended to the sink.
C18_FinalizeStep ==
    /\ pc' # pc =>
          /\ pc = "finalize" => pc' = "cancel"
          /\ pc = "cancel" => pc' = "pool_shutdown"
          /\ pc = "pool_shutdown" => pc' = "join"
          /\ pc = "join" => pc' = "decide"
          /\ pc = "decide" => pc' = "returned"
    /\ pc \in {"finalize", "cancel", "pool_shutdown", "join", "decide", "returned"} =>
          (sink_appended' = sink_appended /\ taken' = taken /\ msg' = msg)

\* C18: Finalize runs in the fixed order queue shutdown, cancel of every
\* reader, pool shutdown and join, outcome decision; the sink's finish or
\* cancel comes only after every worker's callback, and nothing is appended
\* once Finalize has begun.
C18_FinalizeOrder == []C18_FinalizeState /\ [][C18_FinalizeStep]_vars

\* the join is waiting for a worker whose put was blocked when Finalize began
C18_Witness ==
    /\ pc = "join"
    /\ sink_appended # <<>>
    /\ \E i \in Consumers : wstate[i] \in {"blocked", "returned"}

InDrainLoop == pc \in {"loop_top", "get", "append"}

\* C19 (state part): in the drain loop left_time is the budget minus the
\* last reading of the stop watch, and the loop is past its top only with
\* time left at that reading.
C19_TimeState ==
    /\ InDrainLoop => left_time = max_interval_s * 1000 - watch_elapsed
    /\ pc \in {"get", "append"} => left_time > 0

\* C19 (step part): a record in hand is passed to the sink whatever the
\* clock reads at the end of that iteration, and once the recomputed
\* left_time is <= 0 the loop takes no record and goes to Finalize, so the
\* record whose iteration ended past the budget is the last one.
C19_TimeStep ==
    /\ (pc = "append" /\ pc' # pc) =>
          (taken' = Append(taken, msg) /\ pc' = "loop_top"
             /\ left_time' = max_interval_s * 1000 - watch_elapsed')
    /\ (InDrainLoop /\ left_time <= 0) =>
          (taken' = taken /\ pc' \in {"loop_top", "finalize"}
             /\ (BlockingGetItem(queue, qshutdown) => Head(queue') = Head(queue)))
    /\ watch_elapsed' >= watch_elapsed

\* C19: the time budget is tested only at the loop top against a value
\* recomputed from the clock at the end of every iteration; a record got
\* from the queue is always appended, and once the recomputed remaining
\* time is <= 0 no further record is taken, so at most one record is
\* appended after the budget has elapsed.
C19_TimeBudgetAtLoopTop == []C19_TimeState /\ [][C19_TimeStep]_vars

\* the budget ran out during an iteration: its record was appended, and the
\* loop stands at its top with records still queued that it will not take
C19_Witness ==
    /\ pc = "loop_top"
    /\ max_interval_s = 1
    /\ left_time <= 0
    /\ taken # <<>>
    /\ queue # <<>>
    /\ ~eos
    /\ left_bytes > 0

QueuedRecords == {queue[k] : k \in 1 .. Len(queue)}

InHand == IF msg = NoMsg THEN {} ELSE {msg}

\* C20: every record put into the queue is freed exactly once, by the
\* drain loop after its append attempt or by the destructor: none is freed
\* twice, a queued record or the one in the loop's hand is not yet freed,
\* every other record that was put is freed, and after the destructor the
\* queue is empty with every record that was put freed.
C20_RecordsFreedExactlyOnce ==
    /\ ~freed_twice
    /\ freed \subseteq enqueued
    /\ freed \cap (QueuedRecords \cup InHand) = {}
    /\ enqueued = freed \cup QueuedRecords \cup InHand
    /\ {taken[k] : k \in 1 .. Len(taken)} \subseteq freed
    /\ dtor_pc = "done" => (queue = <<>> /\ qshutdown /\ freed = enqueued)

\* records were freed by the drain loop and others by the destructor
C20_Witness ==
    /\ dtor_pc = "done"
    /\ taken # <<>>
    /\ Len(taken) > Len(sink_appended)
    /\ Cardinality(freed) > Len(taken)
    /\ freed = enqueued

SameAt(m1, m2, p) ==
    /\ p \in DOMAIN m1 <=> p \in DOMAIN m2
    /\ p \in DOMAIN m1 => m1[p] = m2[p]

AllPartitions == DOMAIN BeginOffset \cup DOMAIN prior_cmt

\* C21: from the start of the drain loop the working map differs from the
\* task's prior committed map only at partitions of records appended to the
\* sink, and on success every partition with no appended record has its
\* prior entry (or none) in the map written back to the task context.
C21_UntouchedPartitionsKeepPrior ==
    /\ pc \in {"loop_top", "get", "append", "finalize", "cancel", "pool_shutdown",
               "join", "decide"} =>
          \A p \in AllPartitions \ PartsIn(sink_appended) :
              SameAt(cmt_offset, prior_cmt, p)
    /\ (Returned /\ ret = "OK") =>
          \A p \in AllPartitions \ PartsIn(sink_appended) :
              SameAt(ctx_cmt_offset, prior_cmt, p)

\* C22: when the drain loop has ended on a closed and empty queue and no
\* append failed, the records appended to the sink are exactly the records
\* taken from the queue, in that order, and they are all the records that
\* were ever put into the queue: none is left queued, in hand or skipped.
C22_ClosedEmptyMeansAllAppended ==
    (eos /\ ~sink_broken) =>
        /\ sink_appended = taken
        /\ queue = <<>>
        /\ msg = NoMsg
        /\ enqueued = {taken[k] : k \in 1 .. Len(taken)}
        /\ Cardinality(enqueued) = Len(taken)

\* both readers finished with budgets left; two records, one of each
\* partition, were appended before Finalize
C22_Witness ==
    /\ pc = "finalize"
    /\ eos
    /\ ~sink_broken
    /\ left_time > 0
    /\ left_bytes > 0
    /\ PartsIn(sink_appended) = {0, 1}
    /\ Len(sink_appended) = 2

\* C23 (state part): the records taken from the queue are, per partition,
\* in increasing offset order, and in the drain loop the working offset of
\* a partition with a taken record is the offset of its last taken record.
C23_OffsetsState ==
    /\ \A j, k \in 1 .. Len(taken) :
          (j < k /\ taken[j].partition = taken[k].partition)
             => taken[j].offset < taken[k].offset
    /\ InDrainLoop =>
          \A p \in PartsIn(taken) :
              (p \in DOMAIN cmt_offset /\ cmt_offset[p] = LastOffsetOf(taken, p))

\* C23 (step part): no step of the drain loop removes a partition from the
\* working map or lowers its offset.
C23_OffsetsStep ==
    (InDrainLoop /\ pc' \in {"loop_top", "get", "append", "finalize"}) =>
        \A p \in DOMAIN cmt_offset :
            (p \in DOMAIN cmt_offset' /\ cmt_offset'[p] >= cmt_offset[p])

\* C23: with every reader pushing a partition's records in increasing
\* offset order into a FIFO queue, the working committed offset of every
\* partition never decreases during the drain loop, however the records of
\* different partitions and readers interleave.
C23_WorkingOffsetsNeverDecrease == []C23_OffsetsState /\ [][C23_OffsetsStep]_vars

\* records of partition 0, 1, 0 were taken in that order
C23_Witness ==
    /\ pc = "loop_top"
    /\ Len(taken) = 3
    /\ taken[1].partition = 0
    /\ taken[2].partition = 1
    /\ taken[3].partition = 0
    /\ cmt_offset[0] = 11
    /\ cmt_offset[1] = 20

BudgetExhaustedAtStart == max_interval_s * 1000 <= 0 \/ max_batch_size <= 0

DrainStarted == AllDispatched /\ pc \notin {"not_called", "submit"}

\* C24: when the drain loop starts with a time or byte budget <= 0, the
\* loop never gets past its first top check: no record is taken or
\* appended; start_all returns only after Finalize (queue shut down, every
\* reader cancelled, pool joined), with the first recorded reader failure
\* if there is one and otherwise Cancelled with the sink cancelled once;
\* finish is never called and the task context is unchanged.
C24_ExhaustedBudgetAtStart ==
    (BudgetExhaustedAtStart /\ DrainStarted) =>
        /\ pc \notin {"get", "append"}
        /\ taken = <<>>
        /\ sink_appended = <<>>
        /\ msg = NoMsg
        /\ ~eos
        /\ sink_finish_calls = 0
        /\ ctx_cmt_offset = prior_cmt
        /\ ctx_receive_bytes = 0
        /\ Returned =>
              /\ qshutdown /\ AllCancelled /\ pool_shutdown
              /\ WorkersDone = Consumers
              /\ IF fail_order # <<>>
                 THEN ret = fail_order[1] /\ sink_cancel_calls = 0
                 ELSE ret = "Cancelled" /\ sink_cancel_calls = 1

\* a byte budget of 0 with time left: records were waiting in the queue,
\* none was taken and the sink was cancelled
C24_Witness ==
    /\ Returned
    /\ max_batch_size = 0
    /\ max_interval_s = 1
    /\ ret = "Cancelled"
    /\ queue # <<>>
    /\ taken = <<>>

====
